---- MODULE Spec2Model ----
(***************************************************************************)
(* State-machine model of the bottom-sheet modal component of              *)
(* src/src/index.tsx.  The file holds two variants of the component: the   *)
(* feature-rich one (lines 48-346: snap points, auto-height, drag toggles) *)
(* and the styled-components one (lines 470-650: snap points only).  One   *)
(* mounted component instance is modelled; its variant and its props are   *)
(* chosen at construction and recorded in cfg.                             *)
(*                                                                         *)
(* Numbers are JavaScript numbers.  All inputs are integers, and the only  *)
(* non-integer results the handlers can produce are halves (compared by    *)
(* doubling both sides) and NaN (arithmetic on an undefined array element),*)
(* which is kept as a distinguished value with JavaScript's rules: it      *)
(* propagates through + and -, and every comparison with it is false.      *)
(***************************************************************************)
EXTENDS Integers, Sequences, FiniteSets, TLC

\* ------------------------------------------------------------------ values

\* `undefined`: an absent prop or an array element out of range.
Undefined == -1000001
\* NaN: the result of arithmetic on undefined.
NaN == -1000000

IsNum(x) == x # Undefined /\ x # NaN

\* JavaScript truthiness of a number-or-undefined: 0, NaN and undefined are falsy.
Truthy(x) == IsNum(x) /\ x # 0

\* a ?? b
Coalesce(a, b) == IF a = Undefined THEN b ELSE a

Add(a, b) == IF IsNum(a) /\ IsNum(b) THEN a + b ELSE NaN
Sub(a, b) == IF IsNum(a) /\ IsNum(b) THEN a - b ELSE NaN
Lt(a, b) == IsNum(a) /\ IsNum(b) /\ a < b
Gt(a, b) == IsNum(a) /\ IsNum(b) /\ a > b
Le(a, b) == IsNum(a) /\ IsNum(b) /\ a <= b
Ge(a, b) == IsNum(a) /\ IsNum(b) /\ a >= b

\* arr[i] with JavaScript's zero-based index; undefined when out of range.
At(arr, i) == IF i + 1 \in DOMAIN arr THEN arr[i + 1] ELSE Undefined

\* arr.filter(pred) for the two predicates the release handler uses.
FilterLe(arr, x) == SelectSeq(arr, LAMBDA s : Le(s, x))
FilterGe(arr, x) == SelectSeq(arr, LAMBDA s : Ge(s, x))

\* ------------------------------------------------------------ environment

\* useWindowDimensions().height: the window height of the modelled device.
ScreenHeight == 100

\* exported indicator height, added to the auto-height.
IndicatorHeight == 36

\* props.gap ?? 32
DefaultGap == 32
\* props.animationDuration ?? 250
DefaultDuration == 250
\* the unmount timer is set this much shorter than the close animation.
UnmountMargin == 50
\* bottom-inset fallback of the layout handler: getBottomInset() ? getBottomInset() : 20
LayoutInsetFallback == 20

\* ------------------------------------------------------------------ bounds

\* pending unmount timers kept at once.
MaxTimers == 2
\* the amount of time one Tick lets pass.
TickStep == 200
\* intermediate frames of one animation that are told apart.
MaxFrames == 1

\* cumulative drag translations (event.translationY) a drag-move may report.
PanDeltas == {-95, -6, -5, -4, 4, 5, 6}
\* the argument of visible(): 0 stands for "no argument" (both are falsy).
OpenHeights == {0, 5, 10}
\* heights the content view may measure in onLayout.
ChildHeights == {30}

\* ------------------------------------------------------------------ props

\* The props of the variants: booleans that may be left out are 1, 0 or
\* Undefined; a callback prop is TRUE when it is supplied; bottomInset is what
\* getBottomInset() returns on the device.
BaseProps ==
  [variant |-> "rich", hasSnapPoints |-> TRUE, snapPoints |-> <<10, 20>>,
   gap |-> Undefined, animationDuration |-> Undefined, autoHeight |-> FALSE,
   dragable |-> Undefined, visibleIndicator |-> Undefined,
   backgroundClick |-> FALSE, onVisible |-> TRUE, onUnVisible |-> TRUE,
   onAutoHeight |-> TRUE, bottomInset |-> 0]

StyledProps ==
  [BaseProps EXCEPT !.variant = "styled", !.onAutoHeight = FALSE]

NoSnapProps ==
  [BaseProps EXCEPT !.hasSnapPoints = FALSE, !.snapPoints = <<>>]

\* The configurations the component is constructed with.
Configs ==
  { BaseProps,
    [BaseProps EXCEPT !.gap = 4, !.backgroundClick = TRUE, !.onVisible = FALSE],
    [BaseProps EXCEPT !.snapPoints = <<20, 10>>, !.animationDuration = 100],
    [BaseProps EXCEPT !.snapPoints = <<10, 10>>, !.onAutoHeight = FALSE],
    [BaseProps EXCEPT !.snapPoints = <<15>>],
    [BaseProps EXCEPT !.snapPoints = <<>>],
    [BaseProps EXCEPT !.snapPoints = <<10, 20, 30>>, !.gap = 4],
    [BaseProps EXCEPT !.autoHeight = TRUE, !.bottomInset = 34],
    [BaseProps EXCEPT !.dragable = 0, !.visibleIndicator = 1],
    [NoSnapProps EXCEPT !.dragable = 1, !.backgroundClick = TRUE],
    [NoSnapProps EXCEPT !.autoHeight = TRUE, !.visibleIndicator = 1,
                        !.onAutoHeight = FALSE, !.onUnVisible = FALSE],
    NoSnapProps,
    StyledProps,
    [StyledProps EXCEPT !.gap = 4, !.backgroundClick = TRUE],
    [StyledProps EXCEPT !.snapPoints = <<15>>, !.animationDuration = 100],
    [StyledProps EXCEPT !.hasSnapPoints = FALSE, !.snapPoints = <<>>] }

\* ------------------------------------------------------------------- state

VARIABLES
  cfg,            \* the props and the variant of the mounted component
  snapPoints,     \* the contents of the props.snapPoints array (mutable)
  effectPending,  \* the snapPoints validation effect has not run yet
  modalHeight,    \* the shared value: current value, animation target, kind
  nowHeight,      \* nowHeight.current
  visible,        \* the visible state
  childrenHeight, \* childrenHeight.current (Undefined for null)
  timers,         \* pending unmount timers, oldest first
  dragging,       \* a pan gesture is active
  closesOwed,     \* close sequences started whose unmount has not run yet
  closedLast,     \* unVisibleModal was the last handler to write modalHeight
  last            \* what the last handler was, its input and its outputs

vars ==
  <<cfg, snapPoints, effectPending, modalHeight, nowHeight, visible,
    childrenHeight, timers, dragging, closesOwed, closedLast, last>>

\* The record of a handler run: its name, its argument, the animated value and
\* the committed translation it started from, the callbacks it invoked (name
\* and argument) and the console warnings it wrote.
Ev(op, arg, pre, preNow, cbs, warn) ==
  [op |-> op, arg |-> arg, pre |-> pre, preNow |-> preNow, cbs |-> cbs,
   warn |-> warn]

\* ---------------------------------------------------------- shared value

\* modalHeight.value = withTiming(t, ...)
WithTiming(mh, t) ==
  [value |-> mh.value, target |-> t, anim |-> "timing", frames |-> 0]
\* modalHeight.value = withSpring(t, ...)
WithSpring(mh, t) ==
  [value |-> mh.value, target |-> t, anim |-> "spring", frames |-> 0]
\* modalHeight.value = v (a plain assignment ends any animation in progress)
Assign(v) == [value |-> v, target |-> v, anim |-> "none", frames |-> 0]

Halfway(v, t) == (v + t) \div 2

\* The values one animation frame may move the shared value to: all the way
\* (the animation then ends) or, for at most MaxFrames frames of an animation,
\* part of the way or, for the under-damped spring, one unit past the target.
FrameValues(mh) ==
  IF ~IsNum(mh.value) \/ ~IsNum(mh.target)
  THEN {IF mh.anim = "timing" /\ IsNum(mh.target) THEN mh.target ELSE NaN}
  ELSE IF mh.frames >= MaxFrames THEN {mh.target}
  ELSE {Halfway(mh.value, mh.target), mh.target}
       \cup (IF mh.anim = "spring" /\ mh.value < mh.target
             THEN {mh.target + 1} ELSE {})
       \cup (IF mh.anim = "spring" /\ mh.value > mh.target
             THEN {mh.target - 1} ELSE {})

\* ------------------------------------------------------- prop accessors

\* props.snapPoints?.[i]
SnapAt(c, snaps, i) == IF c.hasSnapPoints THEN At(snaps, i) ELSE Undefined

\* a backdrop tap that closes whatever props.backgroundClick says
ClosesOnBackgroundPressAlways(c) == TRUE

\* props.backgroundClick: a tap on the backdrop starts the close sequence
ClosesOnBackgroundPress(c) == c.backgroundClick

\* props.gap ?? 32
Gap(c) == Coalesce(c.gap, DefaultGap)

\* props.animationDuration ?? 250
Duration(c) == Coalesce(c.animationDuration, DefaultDuration)

\* unVisibleModal with the unmount timer set without a delay
UnmountDelayNone(c) == 0

\* the delay handed to setTimeout by unVisibleModal
UnmountDelay(c) == Duration(c) - UnmountMargin

\* (props.autoHeight && (props.dragable ?? props.visibleIndicator)) ||
\* (!props.autoHeight && (props.dragable ?? props.visibleIndicator))
DragEnabled(c) ==
  \/ (c.autoHeight /\ Truthy(Coalesce(c.dragable, c.visibleIndicator)))
  \/ (~c.autoHeight /\ Truthy(Coalesce(c.dragable, c.visibleIndicator)))

\* ------------------------------------------------- snapPoints validation

RECURSIVE InsertSorted(_, _)
InsertSorted(x, arr) ==
  IF arr = <<>> THEN <<x>>
  ELSE IF x < Head(arr) THEN <<x>> \o arr
  ELSE <<Head(arr)>> \o InsertSorted(x, Tail(arr))

\* arr.sort((x, y) => x - y): ascending, in place
RECURSIVE SortAscending(_)
SortAscending(arr) ==
  IF arr = <<>> THEN <<>>
  ELSE InsertSorted(arr[Len(arr)], SortAscending(SubSeq(arr, 1, Len(arr) - 1)))

\* new Set(arr).size
SetSize(arr) == Cardinality({arr[i] : i \in DOMAIN arr})

\* what the array holds once the validation effect has run: the effect
\* compares the array with the result of sort(), which sorts the array itself.
ValidatedSnapPoints(arr) == SortAscending(arr)

\* the warnings of the validation effect
ValidationWarnings(c, arr) ==
  IF ~c.hasSnapPoints THEN <<>>
  ELSE IF arr # SortAscending(arr) THEN <<"Sort the numbers in ascending order">>
  ELSE IF Len(arr) # SetSize(arr)
       THEN <<"Do not include duplicate values in array">>
  ELSE <<>>

\* ------------------------------------------------------------ drag-move

\* getMaximum() returning the committed translation whenever there are no
\* snap points
GetMaximumCommittedFloor(c, snaps, now) ==
  IF c.hasSnapPoints /\ Len(snaps) >= 1
  THEN Sub(Sub(ScreenHeight, At(snaps, Len(snaps) - 1)), Gap(c))
  ELSE now

\* getMaximum() with the gap left out of the styled variant's branch for a
\* single snap point
GetMaximumStyledSingleNoGap(c, snaps, now) ==
  IF c.variant = "rich"
  THEN IF c.hasSnapPoints /\ Len(snaps) >= 1
       THEN Sub(Sub(ScreenHeight, At(snaps, Len(snaps) - 1)), Gap(c))
       ELSE IF DragEnabled(c) THEN 0
       ELSE now
  ELSE IF c.hasSnapPoints /\ Len(snaps) >= 2
       THEN Sub(Sub(ScreenHeight, At(snaps, Len(snaps) - 1)), Gap(c))
       ELSE IF c.hasSnapPoints
       THEN Sub(ScreenHeight, At(snaps, 0))
       ELSE now

\* getMaximum() of onPanGestureActive
GetMaximum(c, snaps, now) ==
  IF c.variant = "rich"
  THEN IF c.hasSnapPoints /\ Len(snaps) >= 1
       THEN Sub(Sub(ScreenHeight, At(snaps, Len(snaps) - 1)), Gap(c))
       ELSE IF DragEnabled(c) THEN 0
       ELSE now
  ELSE IF c.hasSnapPoints /\ Len(snaps) >= 2
       THEN Sub(Sub(ScreenHeight, At(snaps, Len(snaps) - 1)), Gap(c))
       ELSE IF c.hasSnapPoints
       THEN Sub(Sub(ScreenHeight, At(snaps, 0)), Gap(c))
       ELSE now

\* the upper end of the drag range left at the window height
DragCeilingAtWindow(c, snaps) == ScreenHeight

\* the upper end of the drag range: height - (props.snapPoints?.[0] ?? 0) in
\* the rich variant, height - props.snapPoints[0] in the styled one
DragCeiling(c, snaps) ==
  IF c.variant = "rich"
  THEN Sub(ScreenHeight, Coalesce(SnapAt(c, snaps, 0), 0))
  ELSE Sub(ScreenHeight, SnapAt(c, snaps, 0))

\* onPanGestureActive with the two ends of the range included
PanAcceptsInclusive(c, snaps, now, ty) ==
  /\ IF c.variant = "rich"
     THEN Truthy(SnapAt(c, snaps, 0)) \/ DragEnabled(c)
     ELSE Truthy(SnapAt(c, snaps, 0))
  /\ Le(Add(now, ty), DragCeiling(c, snaps))
  /\ Ge(Add(now, ty), GetMaximum(c, snaps, now))

\* the condition under which onPanGestureActive writes the shared value
PanAccepts(c, snaps, now, ty) ==
  /\ IF c.variant = "rich"
     THEN Truthy(SnapAt(c, snaps, 0)) \/ DragEnabled(c)
     ELSE Truthy(SnapAt(c, snaps, 0))
  /\ Lt(Add(now, ty), DragCeiling(c, snaps))
  /\ Gt(Add(now, ty), GetMaximum(c, snaps, now))

\* ---------------------------------------------------------- drag release

\* nearSnapPoints taking the first, not the last, snap point below
NearSnapPointsFirstBelow(snaps, now) ==
  LET minFilteredArr == FilterLe(snaps, Sub(ScreenHeight, now))
      maxFilteredArr == FilterGe(snaps, Sub(ScreenHeight, now))
  IN  <<At(minFilteredArr, 0), At(maxFilteredArr, 0)>>

\* nearSnapPoints: the last snap point <= the visible height and the first
\* snap point >= it (undefined when there is none)
NearSnapPoints(snaps, now) ==
  LET minFilteredArr == FilterLe(snaps, Sub(ScreenHeight, now))
      maxFilteredArr == FilterGe(snaps, Sub(ScreenHeight, now))
  IN  <<At(minFilteredArr, Len(minFilteredArr) - 1), At(maxFilteredArr, 0)>>

\* the single-snap test reading the wrong elements
IsSingleSnapWrongIndex(snaps) == Truthy(At(snaps, 1)) /\ ~Truthy(At(snaps, 0))

\* props.snapPoints?.[0] && !props.snapPoints?.[1]
IsSingleSnap(snaps) == Truthy(At(snaps, 0)) /\ ~Truthy(At(snaps, 1))

\* the midpoint test with >= in place of >
SettlesUpAtTie(near, now) ==
  /\ IsNum(near[1]) /\ IsNum(near[2]) /\ IsNum(now)
  /\ 2 * ScreenHeight - (near[1] + near[2]) >= 2 * now

\* height - (near[0] + (near[1] - near[0]) / 2) > nowHeight.current, with both
\* sides doubled so that the half stays an integer
SettlesUp(near, now) ==
  /\ IsNum(near[1]) /\ IsNum(near[2]) /\ IsNum(now)
  /\ 2 * ScreenHeight - (near[1] + near[2]) > 2 * now

\* the translation a release settles to when snap points are configured; now
\* is the animated value at the release
SnapTarget(snaps, now) ==
  IF IsSingleSnap(snaps) THEN Sub(ScreenHeight, At(snaps, 0))
  ELSE IF SettlesUp(NearSnapPoints(snaps, now), now)
       THEN Sub(ScreenHeight, NearSnapPoints(snaps, now)[2])
  ELSE Sub(ScreenHeight, NearSnapPoints(snaps, now)[1])

\* the half-height test with >= in place of >
StaysOpenAtHalf(value, now) ==
  /\ IsNum(value) /\ IsNum(now)
  /\ 2 * (ScreenHeight - value) >= ScreenHeight - now

\* (height - modalHeight.value) > ((height - nowHeight.current) / 2), doubled
StaysOpen(value, now) ==
  /\ IsNum(value) /\ IsNum(now)
  /\ 2 * (ScreenHeight - value) > ScreenHeight - now

\* onAutoHeight handed the visible height instead of the translation
ReportedVisibleHeight(h) == Sub(ScreenHeight, h)

\* the argument onPanGestureEnd hands to props.onAutoHeight: its local h
ReportedHeight(h) == h

\* ------------------------------------------------------------------ open

\* the auto-height visible() computes
AutoHeightOnOpen(c, ch) ==
  Coalesce(ch, 0) + (IF c.hasSnapPoints THEN IndicatorHeight ELSE 0)
    + c.bottomInset

\* the auto-height the onLayout handler computes (its last, platform term
\* is 0 on iOS and x - x elsewhere)
AutoHeightOnLayout(c, snaps, ch) ==
  ch + (IF (c.hasSnapPoints /\ Len(snaps) # 0) \/ Truthy(c.visibleIndicator)
        THEN IndicatorHeight ELSE 0)
     + (IF c.bottomInset # 0 THEN c.bottomInset ELSE LayoutInsetFallback)

\* visible(h) animating to h itself, the subtraction from the height left out
VisibleTargetNoOffset(c, snaps, ch, h) ==
  IF ~Truthy(h) /\ ~c.hasSnapPoints /\ (c.variant = "styled" \/ ~c.autoHeight)
  THEN Undefined
  ELSE IF c.variant = "rich" /\ c.autoHeight
  THEN ScreenHeight - AutoHeightOnOpen(c, ch)
  ELSE IF Truthy(h) THEN h
  ELSE IF c.hasSnapPoints /\ Truthy(At(snaps, 0))
  THEN ScreenHeight - At(snaps, 0)
  ELSE Undefined

\* visible(h) with the first snap point tried before the auto-height
VisibleTargetSnapFirst(c, snaps, ch, h) ==
  IF ~Truthy(h) /\ ~c.hasSnapPoints /\ (c.variant = "styled" \/ ~c.autoHeight)
  THEN Undefined
  ELSE IF Truthy(h) THEN ScreenHeight - h
  ELSE IF c.hasSnapPoints /\ Truthy(At(snaps, 0))
  THEN ScreenHeight - At(snaps, 0)
  ELSE IF c.variant = "rich" /\ c.autoHeight
  THEN ScreenHeight - AutoHeightOnOpen(c, ch)
  ELSE Undefined

\* visible(h) opening at height 0 where the code only warns
VisibleTargetOpensAnyway(c, snaps, ch, h) ==
  IF c.variant = "rich" /\ c.autoHeight
  THEN ScreenHeight - AutoHeightOnOpen(c, ch)
  ELSE IF Truthy(h) THEN ScreenHeight - h
  ELSE IF c.hasSnapPoints /\ Truthy(At(snaps, 0))
  THEN ScreenHeight - At(snaps, 0)
  ELSE ScreenHeight

\* The translation visible(h) animates to, or Undefined when it only warns.
VisibleTarget(c, snaps, ch, h) ==
  IF c.variant = "rich"
  THEN IF ~Truthy(h) /\ ~c.hasSnapPoints /\ ~c.autoHeight THEN Undefined
       ELSE IF c.autoHeight THEN ScreenHeight - AutoHeightOnOpen(c, ch)
       ELSE IF Truthy(h) THEN ScreenHeight - h
       ELSE IF c.hasSnapPoints /\ Truthy(At(snaps, 0))
       THEN ScreenHeight - At(snaps, 0)
       ELSE Undefined
  ELSE IF ~Truthy(h) /\ ~c.hasSnapPoints THEN Undefined
       ELSE IF Truthy(h) THEN ScreenHeight - h
       ELSE IF c.hasSnapPoints /\ Truthy(At(snaps, 0))
       THEN ScreenHeight - At(snaps, 0)
       ELSE Undefined

\* the warning of a visible(h) that does nothing
VisibleWarning(c, h) ==
  IF ~Truthy(h) /\ ~c.hasSnapPoints /\ (c.variant = "styled" \/ ~c.autoHeight)
  THEN "modal_height and snapPoints is not valid. Pls write and try again"
  ELSE "If you want not use modal_height, you need write snapPints[0]"

\* ----------------------------------------------------------------- Init

\* The component after its first render: hidden, the shared value and nothing
\* else at the window height, the validation effect still to run.
Init ==
  /\ cfg \in Configs
  /\ snapPoints = cfg.snapPoints
  /\ effectPending = TRUE
  /\ modalHeight = Assign(ScreenHeight)
  /\ nowHeight = 0
  /\ visible = FALSE
  /\ childrenHeight = Undefined
  /\ timers = <<>>
  /\ dragging = FALSE
  /\ closesOwed = 0
  /\ closedLast = TRUE
  /\ last = Ev("mount", 0, 0, 0, <<>>, <<>>)

\* -------------------------------------------------------------- actions

\* useEffect(..., [props.snapPoints]): runs once the first render is
\* committed, before any handler can be called.
ValidateSnapPoints ==
  /\ effectPending
  /\ effectPending' = FALSE
  /\ snapPoints' = IF cfg.hasSnapPoints THEN ValidatedSnapPoints(snapPoints)
                   ELSE snapPoints
  /\ last' = Ev("validate", 0, 0, 0, <<>>, ValidationWarnings(cfg, snapPoints))
  /\ UNCHANGED <<cfg, modalHeight, nowHeight, visible, childrenHeight, timers,
                 dragging, closesOwed, closedLast>>

\* unVisibleModal() clearing the timers of earlier closes before it sets its own
UnVisibleModalRestartsTimer ==
  /\ nowHeight' = ScreenHeight
  /\ modalHeight' = WithTiming(modalHeight, ScreenHeight)
  /\ timers' = <<[delay |-> UnmountDelay(cfg), elapsed |-> 0]>>

\* unVisibleModal() without its withTiming(height) animation
UnVisibleModalNoAnimation ==
  /\ Len(timers) < MaxTimers
  /\ nowHeight' = ScreenHeight
  /\ modalHeight' = modalHeight
  /\ timers' = Append(timers, [delay |-> UnmountDelay(cfg), elapsed |-> 0])

\* unVisibleModal() without nowHeight.current = height
UnVisibleModalKeepsCommitted ==
  /\ Len(timers) < MaxTimers
  /\ nowHeight' = nowHeight
  /\ modalHeight' = WithTiming(modalHeight, ScreenHeight)
  /\ timers' = Append(timers, [delay |-> UnmountDelay(cfg), elapsed |-> 0])

\* unVisibleModal(): the state it writes (the caller records the event)
UnVisibleModal ==
  /\ Len(timers) < MaxTimers
  /\ nowHeight' = ScreenHeight
  /\ modalHeight' = WithTiming(modalHeight, ScreenHeight)
  /\ timers' = Append(timers, [delay |-> UnmountDelay(cfg), elapsed |-> 0])

\* ref.visible(modal_height) of a component mounted with the props c
VisibleWith(c, h) ==
  /\ ~effectPending
  /\ LET t == VisibleTarget(c, snapPoints, childrenHeight, h)
     IN  IF t = Undefined
         THEN /\ last' = Ev("visible", h, 0, 0, <<>>, <<VisibleWarning(c, h)>>)
              /\ UNCHANGED <<visible, nowHeight, modalHeight, closedLast>>
         ELSE /\ visible' = TRUE
              /\ nowHeight' = t
              /\ modalHeight' = WithTiming(modalHeight, t)
              /\ closedLast' = FALSE
              /\ last' = Ev("visible", h, 0, 0,
                            IF c.onVisible THEN <<<<"onVisible", 0>>>> ELSE <<>>,
                            <<>>)
  /\ UNCHANGED <<cfg, snapPoints, effectPending, childrenHeight, timers,
                 dragging, closesOwed>>

\* ref.visible(modal_height)
Visible(h) == VisibleWith(cfg, h)

\* ref.unVisible()
UnVisible ==
  /\ ~effectPending
  /\ UnVisibleModal
  /\ closesOwed' = closesOwed + 1
  /\ closedLast' = TRUE
  /\ last' = Ev("unVisible", 0, 0, 0, <<>>, <<>>)
  /\ UNCHANGED <<cfg, snapPoints, effectPending, visible, childrenHeight,
                 dragging>>

\* handleBackgroundPress: a tap on the backdrop of the shown modal
BackgroundPress ==
  /\ ~effectPending
  /\ visible
  /\ IF ClosesOnBackgroundPress(cfg)
     THEN /\ UnVisibleModal
          /\ closesOwed' = closesOwed + 1
          /\ closedLast' = TRUE
     ELSE UNCHANGED <<nowHeight, modalHeight, timers, closesOwed, closedLast>>
  /\ last' = Ev("backgroundPress", 0, 0, 0, <<>>, <<>>)
  /\ UNCHANGED <<cfg, snapPoints, effectPending, visible, childrenHeight,
                 dragging>>

\* onPanGestureActive(event) of a component mounted with the props c
PanActiveWith(c, ty) ==
  /\ ~effectPending
  /\ visible
  /\ dragging' = TRUE
  /\ modalHeight' = IF PanAccepts(c, snapPoints, nowHeight, ty)
                    THEN Assign(Add(nowHeight, ty))
                    ELSE modalHeight
  /\ closedLast' = (closedLast /\ ~PanAccepts(c, snapPoints, nowHeight, ty))
  /\ last' = Ev("panActive", ty, 0, 0, <<>>, <<>>)
  /\ UNCHANGED <<cfg, snapPoints, effectPending, nowHeight, visible,
                 childrenHeight, timers, closesOwed>>

\* onPanGestureActive(event): a drag-move of the shown modal
PanActive(ty) == PanActiveWith(cfg, ty)

\* onPanGestureEnd() of the feature-rich variant
PanEndRich(c) ==
  /\ c.variant = "rich"
  /\ IF c.hasSnapPoints
     THEN LET h == SnapTarget(snapPoints, modalHeight.value)
          IN  /\ nowHeight' = h
              /\ modalHeight' = WithSpring(modalHeight, h)
              /\ timers' = timers
              /\ closesOwed' = closesOwed
              /\ closedLast' = FALSE
              /\ last' = Ev("panEnd", 0, modalHeight.value, nowHeight,
                            IF c.onAutoHeight
                            THEN <<<<"onAutoHeight", ReportedHeight(h)>>>>
                            ELSE <<>>, <<>>)
     ELSE IF StaysOpen(modalHeight.value, nowHeight)
     THEN /\ nowHeight' = nowHeight
          /\ modalHeight' = WithSpring(modalHeight, nowHeight)
          /\ timers' = timers
          /\ closesOwed' = closesOwed
          /\ closedLast' = FALSE
          /\ last' = Ev("panEnd", 0, modalHeight.value, nowHeight,
                        IF c.onAutoHeight
                        THEN <<<<"onAutoHeight", ReportedHeight(nowHeight)>>>>
                        ELSE <<>>, <<>>)
     ELSE /\ UnVisibleModal
          /\ closesOwed' = closesOwed + 1
          /\ closedLast' = TRUE
          /\ last' = Ev("panEnd", 0, modalHeight.value, nowHeight,
                        IF c.onAutoHeight
                        THEN <<<<"onAutoHeight", ReportedHeight(ScreenHeight)>>>>
                        ELSE <<>>, <<>>)

\* onPanGestureEnd() of the styled variant
PanEndStyled(c) ==
  /\ c.variant = "styled"
  /\ IF c.hasSnapPoints
     THEN /\ nowHeight' = SnapTarget(snapPoints, modalHeight.value)
          /\ modalHeight' =
               WithSpring(modalHeight, SnapTarget(snapPoints, modalHeight.value))
          /\ closedLast' = FALSE
     ELSE /\ nowHeight' = modalHeight.value
          /\ modalHeight' = modalHeight
          /\ closedLast' = closedLast
  /\ timers' = timers
  /\ closesOwed' = closesOwed
  /\ last' = Ev("panEnd", 0, modalHeight.value, nowHeight, <<>>, <<>>)

\* the release of an active pan gesture of a component mounted with the props c
PanEndWith(c) ==
  /\ ~effectPending
  /\ visible
  /\ dragging
  /\ dragging' = FALSE
  /\ (PanEndRich(c) \/ PanEndStyled(c))
  /\ UNCHANGED <<cfg, snapPoints, effectPending, visible, childrenHeight>>

\* the release of an active pan gesture
PanEnd == PanEndWith(cfg)

\* onLayout of the content view (feature-rich variant only)
Layout(ch) ==
  /\ ~effectPending
  /\ visible
  /\ cfg.variant = "rich"
  /\ IF cfg.autoHeight
     THEN /\ childrenHeight' = ch
          /\ nowHeight' = ScreenHeight - AutoHeightOnLayout(cfg, snapPoints, ch)
          /\ modalHeight' =
               WithTiming(modalHeight,
                          ScreenHeight - AutoHeightOnLayout(cfg, snapPoints, ch))
          /\ closedLast' = FALSE
     ELSE UNCHANGED <<childrenHeight, nowHeight, modalHeight, closedLast>>
  /\ last' = Ev("layout", ch, 0, 0, <<>>, <<>>)
  /\ UNCHANGED <<cfg, snapPoints, effectPending, visible, timers, dragging,
                 closesOwed>>

\* the callback of the oldest unmount timer, once its delay has passed; the
\* modal is unmounted, which ends a gesture in progress (the event records
\* how long the timer had waited)
TimerFire ==
  /\ timers # <<>>
  /\ Head(timers).elapsed >= Head(timers).delay
  /\ timers' = Tail(timers)
  /\ visible' = FALSE
  /\ dragging' = FALSE
  /\ closesOwed' = closesOwed - 1
  /\ last' = Ev("timer", Head(timers).elapsed, 0, 0,
                IF cfg.onUnVisible THEN <<<<"onUnVisible", 0>>>> ELSE <<>>, <<>>)
  /\ UNCHANGED <<cfg, snapPoints, effectPending, modalHeight, nowHeight,
                 childrenHeight, closedLast>>

\* time passes while a timer is waiting
Tick ==
  /\ \E i \in DOMAIN timers : timers[i].elapsed < timers[i].delay
  /\ timers' = [i \in DOMAIN timers |->
                  IF timers[i].elapsed < timers[i].delay
                  THEN [timers[i] EXCEPT !.elapsed = @ + TickStep]
                  ELSE timers[i]]
  /\ last' = Ev("tick", 0, 0, 0, <<>>, <<>>)
  /\ UNCHANGED <<cfg, snapPoints, effectPending, modalHeight, nowHeight,
                 visible, childrenHeight, dragging, closesOwed, closedLast>>

\* one frame of the animation running on the shared value
AnimationFrame ==
  /\ modalHeight.anim # "none"
  /\ \E v \in FrameValues(modalHeight) :
       modalHeight' =
         IF v = modalHeight.target
            \/ (~IsNum(v) /\ v = NaN /\ ~IsNum(modalHeight.target))
         THEN Assign(v)
         ELSE [modalHeight EXCEPT !.value = v, !.frames = @ + 1]
  /\ last' = Ev("frame", 0, 0, 0, <<>>, <<>>)
  /\ UNCHANGED <<cfg, snapPoints, effectPending, nowHeight, visible,
                 childrenHeight, timers, dragging, closesOwed, closedLast>>

Next ==
  \/ ValidateSnapPoints
  \/ \E h \in OpenHeights : Visible(h)
  \/ UnVisible
  \/ BackgroundPress
  \/ \E ty \in PanDeltas : PanActive(ty)
  \/ PanEnd
  \/ \E ch \in ChildHeights : Layout(ch)
  \/ TimerFire
  \/ Tick
  \/ AnimationFrame

Spec == Init /\ [][Next]_vars

\* The event loop lets time pass and runs every timer callback that is due.
FairSpec == Spec /\ WF_vars(Tick) /\ WF_vars(TimerFire)

\* ============================================================ properties

\* the visible height at which the last drag release happened
ReleasedAt == ScreenHeight - last.pre

\* the panel rests, or is animating to rest, at visible height s
SettledTo(s) ==
  nowHeight = ScreenHeight - s /\ modalHeight.target = ScreenHeight - s

\* the last handler was a drag release with snap points a < b configured
ReleasedBetweenTwo ==
  /\ last.op = "panEnd"
  /\ cfg.hasSnapPoints
  /\ Len(snapPoints) = 2
  /\ snapPoints[1] < snapPoints[2]

\* C1 as stated: with two snap points a < b, a release exactly at the midpoint
\* visible height settles to b, and a release one unit below it settles to a.
C1_MidpointSettlesUp ==
  ReleasedBetweenTwo =>
    /\ (2 * ReleasedAt = snapPoints[1] + snapPoints[2]
          => SettledTo(snapPoints[2]))
    /\ (2 * ReleasedAt = snapPoints[1] + snapPoints[2] - 2
          => SettledTo(snapPoints[1]))

\* C1 as amended: with two snap points a < b, a release exactly at the
\* midpoint visible height settles to a (b is chosen only strictly above the
\* midpoint), and a release one unit below the midpoint settles to a.
C1_MidpointSettlesDown ==
  ReleasedBetweenTwo =>
    /\ (2 * ReleasedAt = snapPoints[1] + snapPoints[2]
          => SettledTo(snapPoints[1]))
    /\ (2 * ReleasedAt = snapPoints[1] + snapPoints[2] + 2
          /\ ReleasedAt <= snapPoints[2]
          => SettledTo(snapPoints[2]))
    /\ (2 * ReleasedAt = snapPoints[1] + snapPoints[2] - 2
          /\ ReleasedAt >= snapPoints[1]
          => SettledTo(snapPoints[1]))

\* a release exactly at the midpoint of <<10, 20>> that settled to 10
C1_Witness ==
  /\ ReleasedBetweenTwo
  /\ 2 * ReleasedAt = snapPoints[1] + snapPoints[2]
  /\ SettledTo(snapPoints[1])
  /\ modalHeight.anim = "spring"

\* C2 as stated: the validation leaves the supplied snap-point sequence as it
\* was, and warns exactly when it is not ascending or holds a duplicate.
C2_ValidationKeepsInput ==
  (last.op = "validate" /\ cfg.hasSnapPoints) =>
    /\ snapPoints = cfg.snapPoints
    /\ (last.warn # <<>>) <=>
         \/ \E i, j \in DOMAIN cfg.snapPoints :
              i < j /\ cfg.snapPoints[i] >= cfg.snapPoints[j]

\* the last handler was a drag release in free-drag mode
ReleasedFree ==
  /\ last.op = "panEnd"
  /\ cfg.variant = "rich"
  /\ ~cfg.hasSnapPoints
  /\ DragEnabled(cfg)

\* the open visible height the released drag had started from
OpenHeightBefore == ScreenHeight - last.preNow

\* the release started the close sequence
ReleaseClosed ==
  /\ nowHeight = ScreenHeight
  /\ modalHeight.target = ScreenHeight
  /\ modalHeight.anim = "timing"
  /\ timers # <<>>

\* the release settled back to the open height
ReleaseStayedOpen ==
  /\ nowHeight = last.preNow
  /\ modalHeight.target = last.preNow
  /\ modalHeight.anim = "spring"

\* C3 as stated: in free-drag mode a release below half of the open visible
\* height closes, and a release at exactly half settles back to open.
C3_HalfStaysOpen ==
  ReleasedFree =>
    /\ (2 * ReleasedAt < OpenHeightBefore => ReleaseClosed)
    /\ (2 * ReleasedAt = OpenHeightBefore => ReleaseStayedOpen)

\* C3 as amended: in free-drag mode a release at or below half of the open
\* visible height closes (the boundary belongs to close), and only a release
\* strictly above half settles back to open.
C3_HalfCloses ==
  ReleasedFree =>
    /\ (2 * ReleasedAt <= OpenHeightBefore => ReleaseClosed)
    /\ (2 * ReleasedAt > OpenHeightBefore => ReleaseStayedOpen)

\* a free-drag release at exactly half of an open height of 10 that closed
C3_Witness ==
  /\ ReleasedFree
  /\ OpenHeightBefore = 10
  /\ 2 * ReleasedAt = OpenHeightBefore
  /\ ReleaseClosed

\* the effects of a successful open to visible height s
OpenedTo(s) ==
  /\ visible
  /\ cfg.onVisible => last.cbs = <<<<"onVisible", 0>>>>
  /\ nowHeight = ScreenHeight - s
  /\ modalHeight.target = ScreenHeight - s

\* C4 as stated: in every configuration, open with an explicit non-zero height
\* h shows the modal, calls onVisible once and commits and targets
\* screenHeight - h.
C4_ExplicitHeightAlways ==
  (last.op = "visible" /\ last.arg # 0) => OpenedTo(last.arg)

\* C4 as amended: in every configuration without auto-height, open with an
\* explicit non-zero height h shows the modal, calls onVisible once and commits
\* and targets screenHeight - h.
C4_ExplicitHeightWithoutAuto ==
  (last.op = "visible" /\ last.arg # 0 /\ ~cfg.autoHeight) =>
    OpenedTo(last.arg)

\* an open to the explicit height 5 with snap points configured
C4_Witness ==
  /\ last.op = "visible" /\ last.arg = 5
  /\ cfg.hasSnapPoints /\ ~cfg.autoHeight
  /\ OpenedTo(5)
  /\ modalHeight.anim = "timing"

\* measured content height plus the fixed margins, as visible() adds them
MeasuredAutoHeight ==
  (IF childrenHeight = Undefined THEN 0 ELSE childrenHeight)
    + (IF cfg.hasSnapPoints THEN 36 ELSE 0) + cfg.bottomInset

\* C5 as stated: open without a height takes a non-zero first snap point
\* first, and the auto-height only when there is none and auto-height is on.
C5_SnapPointBeforeAuto ==
  (last.op = "visible" /\ last.arg = 0) =>
    /\ (Truthy(SnapAt(cfg, snapPoints, 0))
          => OpenedTo(SnapAt(cfg, snapPoints, 0)))
    /\ (~Truthy(SnapAt(cfg, snapPoints, 0)) /\ cfg.autoHeight
          => OpenedTo(MeasuredAutoHeight))

\* C5 as amended: open without a height takes the auto-height first whenever
\* auto-height is on (also when a first snap point exists), and the non-zero
\* first snap point only when auto-height is off.
C5_AutoBeforeSnapPoint ==
  (last.op = "visible" /\ last.arg = 0) =>
    /\ (cfg.autoHeight => OpenedTo(MeasuredAutoHeight))
    /\ (~cfg.autoHeight /\ Truthy(SnapAt(cfg, snapPoints, 0))
          => OpenedTo(SnapAt(cfg, snapPoints, 0)))

\* an open without a height, auto-height on and snap points configured, after
\* the content has been measured
C5_Witness ==
  /\ last.op = "visible" /\ last.arg = 0
  /\ cfg.autoHeight /\ Truthy(SnapAt(cfg, snapPoints, 0))
  /\ childrenHeight # Undefined
  /\ OpenedTo(MeasuredAutoHeight)

\* the unmount delay the props ask for: animationDuration (default 250) - 50
StatedDelay ==
  (IF cfg.animationDuration = Undefined THEN 250 ELSE cfg.animationDuration) - 50

\* C6 as stated: after every close call the visible flag is not set to false
\* before animationDuration - 50 has passed since that call, and it is set to
\* false once the delay has passed.
C6_NoUnmountBeforeAnyCloseDelay ==
  /\ [][(visible /\ ~visible') =>
          \A i \in DOMAIN timers : timers[i].elapsed >= StatedDelay]_vars
  /\ (timers # <<>>) ~> (last.op = "timer")

\* C6 as amended: the unmount scheduled by a close call runs (sets the visible
\* flag to false) no earlier than animationDuration - 50 after that call, and
\* it does run once that delay has passed; the flag can be set to false sooner
\* after a later close call by the pending timer of an earlier one.
C6_OwnTimerWaitsItsDelay ==
  /\ [](last.op = "timer" => (last.arg >= StatedDelay /\ ~visible))
  /\ (timers # <<>>) ~> (last.op = "timer")

\* an unmount timer of the default delay of 200 has run and hidden the modal
C6_Witness ==
  /\ last.op = "timer"
  /\ StatedDelay = 200
  /\ last.arg >= 200
  /\ ~visible

\* the largest snap point <= v and the smallest snap point >= v
LowerBracket(v) ==
  CHOOSE a \in {snapPoints[i] : i \in DOMAIN snapPoints} :
    a <= v /\ \A i \in DOMAIN snapPoints : snapPoints[i] <= v => snapPoints[i] <= a
UpperBracket(v) ==
  CHOOSE b \in {snapPoints[i] : i \in DOMAIN snapPoints} :
    b >= v /\ \A i \in DOMAIN snapPoints : snapPoints[i] >= v => snapPoints[i] >= b

\* the last handler was a release inside the range of two or more strictly
\* ascending snap points
ReleasedInsideSnapRange ==
  /\ last.op = "panEnd"
  /\ cfg.hasSnapPoints
  /\ Len(snapPoints) >= 2
  /\ \A i, j \in DOMAIN snapPoints : i < j => snapPoints[i] < snapPoints[j]
  /\ IsNum(last.pre)
  /\ snapPoints[1] <= ReleasedAt
  /\ ReleasedAt <= snapPoints[Len(snapPoints)]

\* C7: with two or more strictly ascending snap points, a release at a visible
\* height v between the first and the last settles to a member of the
\* bracketing pair: to the upper one when v is strictly above their midpoint,
\* to the lower one when v is strictly below it.
C7_SettlesToBracket ==
  ReleasedInsideSnapRange =>
    LET a == LowerBracket(ReleasedAt)
        b == UpperBracket(ReleasedAt)
    IN  /\ SettledTo(a) \/ SettledTo(b)
        /\ modalHeight.anim = "spring"
        /\ 2 * ReleasedAt > a + b => SettledTo(b)
        /\ 2 * ReleasedAt < a + b => SettledTo(a)

\* a release between the second and the third of three snap points, below
\* their midpoint, that settled to the second
C7_Witness ==
  /\ ReleasedInsideSnapRange
  /\ Len(snapPoints) = 3
  /\ snapPoints[2] < ReleasedAt
  /\ 2 * ReleasedAt < snapPoints[2] + snapPoints[3]
  /\ SettledTo(snapPoints[2])

\* C8: with exactly one non-zero snap point s, a release at any animated
\* translation commits and springs to screenHeight - s.
C8_SingleSnapSettles ==
  (last.op = "panEnd" /\ cfg.hasSnapPoints /\ Len(snapPoints) = 1
     /\ snapPoints[1] # 0) =>
    SettledTo(snapPoints[1]) /\ modalHeight.anim = "spring"

\* a release below the only snap point, which settled to it
C8_Witness ==
  /\ last.op = "panEnd" /\ cfg.hasSnapPoints /\ Len(snapPoints) = 1
  /\ ReleasedAt < snapPoints[1]
  /\ SettledTo(snapPoints[1])

\* the candidate translation of a drag-move by ty lies outside the range
OutsideRange(ty) ==
  ~ /\ Lt(Add(nowHeight, ty), DragCeiling(cfg, snapPoints))
    /\ Gt(Add(nowHeight, ty), GetMaximum(cfg, snapPoints, nowHeight))

\* C9: a drag-move whose candidate translation lies outside the permitted
\* range leaves the animated height, the last committed translation and the
\* visible flag as they were.
C9_RejectedDragKeepsState ==
  [][(last'.op = "panActive" /\ OutsideRange(last'.arg)) =>
       UNCHANGED <<modalHeight, nowHeight, visible>>]_vars

\* a drag-move onto the upper end of the range of a configuration with snap
\* points, which left the animated height where it was
C9_Witness ==
  /\ last.op = "panActive"
  /\ Truthy(SnapAt(cfg, snapPoints, 0))
  /\ nowHeight + last.arg = ScreenHeight - snapPoints[1]
  /\ modalHeight.value = nowHeight
  /\ visible

\* C10 as stated: on every release onAutoHeight is invoked exactly once with
\* the resolved visible height (the snap point or open height settled to).
C10_ReportsVisibleHeight ==
  (last.op = "panEnd" /\ cfg.onAutoHeight) =>
    last.cbs = <<<<"onAutoHeight", Sub(ScreenHeight, nowHeight)>>>>

\* C10 as amended: on every release with onAutoHeight supplied, it is invoked
\* exactly once with the translation the panel settles to, which is the new
\* last committed translation (screenHeight minus the snap point or open
\* height, or screenHeight when the release closes), not the visible height.
C10_ReportsTranslation ==
  (last.op = "panEnd" /\ cfg.onAutoHeight) =>
    last.cbs = <<<<"onAutoHeight", nowHeight>>>>

\* a release that settled to the snap point 20 and reported the translation 80
C10_Witness ==
  /\ last.op = "panEnd" /\ cfg.onAutoHeight
  /\ SettledTo(20)
  /\ last.cbs = <<<<"onAutoHeight", ScreenHeight - 20>>>>

\* visible(h) was called with nothing to open to: no explicit height (or 0),
\* no usable first snap point, auto-height off
OpenWithoutHeight ==
  /\ last.op = "visible"
  /\ ~Truthy(last.arg)
  /\ ~Truthy(SnapAt(cfg, snapPoints, 0))
  /\ ~(cfg.variant = "rich" /\ cfg.autoHeight)

\* C11: an open with no explicit height (or height 0), no usable first snap
\* point and auto-height disabled is a no-op: the visible flag, the animated
\* height, its animation target and the last committed translation are
\* unchanged, onVisible is not invoked, and a warning is reported.
C11_OpenWithoutHeightIsNoOp ==
  [][OpenWithoutHeight' =>
       /\ UNCHANGED <<visible, modalHeight, nowHeight>>
       /\ last'.cbs = <<>>
       /\ last'.warn # <<>>]_vars

\* such an open of a panel that is shown at the translation 95: it stays there
C11_Witness ==
  /\ OpenWithoutHeight
  /\ last.warn # <<>>
  /\ visible
  /\ nowHeight = ScreenHeight - 5
  /\ modalHeight.target = ScreenHeight - 5

\* the close sequence has just been started from the previous state: the
\* committed translation is the window height, the shared value animates to
\* it by withTiming, and one more unmount timer is pending
CloseStarted ==
  /\ nowHeight' = ScreenHeight
  /\ modalHeight'.target = ScreenHeight
  /\ modalHeight'.anim = "timing"
  /\ Len(timers') = Len(timers) + 1
  /\ SubSeq(timers', 1, Len(timers)) = timers
  /\ timers'[Len(timers')].elapsed = 0

\* C12: a backdrop tap starts the close sequence if and only if
\* backgroundClick is enabled; with backgroundClick disabled or unset a tap
\* leaves the visible flag, the animated height, the last committed
\* translation and the set of pending unmount timers unchanged.
C12_BackdropTapClosesIffEnabled ==
  [][last'.op = "backgroundPress" =>
       IF cfg.backgroundClick
       THEN CloseStarted /\ visible' = visible
       ELSE UNCHANGED <<visible, modalHeight, nowHeight, timers>>]_vars

\* a tap with backgroundClick unset on a panel that is open at rest with no
\* close in progress
C12_Witness ==
  /\ last.op = "backgroundPress"
  /\ ~cfg.backgroundClick
  /\ visible
  /\ timers = <<>>
  /\ nowHeight = ScreenHeight - 10
  /\ modalHeight = Assign(ScreenHeight - 10)

\* a close sequence is started by this step: unVisible(), a backdrop tap with
\* backgroundClick enabled, or a free-drag release that closes
CloseSequenceStarts ==
  \/ last'.op = "unVisible"
  \/ last'.op = "backgroundPress" /\ cfg.backgroundClick
  \/ /\ last'.op = "panEnd"
     /\ cfg.variant = "rich"
     /\ ~cfg.hasSnapPoints
     /\ ~StaysOpen(modalHeight.value, nowHeight)

\* the body of an unmount timer runs in this step: visible := false and
\* onUnVisible, when supplied, is invoked
UnmountRuns ==
  /\ last'.op = "timer"
  /\ ~visible'
  /\ last'.cbs = (IF cfg.onUnVisible THEN <<<<"onUnVisible", 0>>>> ELSE <<>>)

\* C13: an unmount timer started by a close is never cancelled. Every close
\* sequence started adds one timer behind those already pending, a timer
\* leaves the queue only by running its body, opens and every other handler
\* leave the pending timers in place, so the closes started and not yet
\* followed by their unmount are exactly the pending timers; and either no
\* close stays owed its unmount or unmounts keep running, oldest timer first,
\* so n closes yield n executions.
C13_EveryCloseUnmountsOnce ==
  /\ [](closesOwed = Len(timers))
  /\ [][/\ CloseSequenceStarts => Len(timers') = Len(timers) + 1
        /\ Len(timers') > Len(timers) => CloseSequenceStarts
        /\ Len(timers') < Len(timers) => UnmountRuns /\ timers' = Tail(timers)
        /\ last'.op = "timer" => UnmountRuns /\ timers' = Tail(timers)
        /\ last'.op = "visible" => timers' = timers]_vars
  /\ ([]<>(closesOwed = 0) \/ []<><<TimerFire>>_vars)

\* the unmount of the first of two closes has run after the panel was opened
\* again, and the second close still has its own unmount to come
C13_Witness ==
  /\ last.op = "timer"
  /\ closesOwed = 1
  /\ Len(timers) = 1
  /\ ~closedLast
  /\ modalHeight.target = ScreenHeight - 10

\* the snap-point list of the mounted component is non-empty and its first
\* element is not zero
HasNonZeroSnapPoint == cfg.hasSnapPoints /\ Truthy(At(snapPoints, 0))

\* c lies strictly between screenHeight - lastSnap - gap and
\* screenHeight - firstSnap
InsideSnapRange(c) ==
  /\ IsNum(c)
  /\ c > ScreenHeight - snapPoints[Len(snapPoints)]
           - (IF cfg.gap = Undefined THEN 32 ELSE cfg.gap)
  /\ c < ScreenHeight - snapPoints[1]

\* C14: with at least one non-zero snap point configured, a drag-move is
\* applied if and only if its candidate c = nowHeight + delta satisfies
\* screenHeight - lastSnap - gap < c < screenHeight - firstSnap (gap
\* defaulting to 32, both bounds strict); when applied the animated height
\* becomes exactly c, otherwise it keeps its value.
C14_DragAppliedIffInsideRange ==
  [][(last'.op = "panActive" /\ HasNonZeroSnapPoint) =>
       IF InsideSnapRange(Add(nowHeight, last'.arg))
       THEN modalHeight' = Assign(nowHeight + last'.arg)
       ELSE modalHeight' = modalHeight]_vars

\* an applied drag-move of a panel with three snap points, from the second
\* snap point towards the third (the range is 66 < c < 90)
C14_Witness ==
  /\ last.op = "panActive"
  /\ HasNonZeroSnapPoint
  /\ Len(snapPoints) = 3
  /\ modalHeight = Assign(nowHeight + last.arg)
  /\ nowHeight = ScreenHeight - 20
  /\ modalHeight.value = 74

\* free-drag mode: no snapPoints prop, dragging enabled through dragable or,
\* when dragable is not given, visibleIndicator (feature-rich variant)
FreeDragMode ==
  /\ cfg.variant = "rich"
  /\ ~cfg.hasSnapPoints
  /\ Truthy(IF cfg.dragable = Undefined THEN cfg.visibleIndicator
            ELSE cfg.dragable)

\* C15 as stated: in free-drag mode the lower bound of the permitted drag
\* range is the last committed translation, so a drag-move whose candidate is
\* at or below nowHeight (the panel dragged above its open height) is not
\* applied.
C15_FloorIsCommittedTranslation ==
  [][(last'.op = "panActive" /\ FreeDragMode
        /\ Le(Add(nowHeight, last'.arg), nowHeight)) =>
       modalHeight' = modalHeight]_vars

\* C15 as the code has it: in free-drag mode the lower bound of the permitted
\* drag range is 0, the top of the window, not the last committed translation:
\* a drag-move is applied exactly when its candidate c satisfies
\* 0 < c < screenHeight, so a candidate at or below nowHeight and above 0 is
\* applied and only a candidate at or below 0 is rejected at the lower end.
C15_FloorIsZero ==
  [][(last'.op = "panActive" /\ FreeDragMode) =>
       IF Gt(Add(nowHeight, last'.arg), 0)
          /\ Lt(Add(nowHeight, last'.arg), ScreenHeight)
       THEN modalHeight' = Assign(nowHeight + last'.arg)
       ELSE modalHeight' = modalHeight]_vars

\* the panel, open at the translation 90, dragged up to 85
C15_Witness ==
  /\ last.op = "panActive"
  /\ FreeDragMode
  /\ last.arg = -5
  /\ nowHeight = ScreenHeight - 10
  /\ modalHeight = Assign(ScreenHeight - 15)

\* C16 as stated: in every reachable state, if the visible flag is false then
\* the animation target of the animated height is screenHeight (the panel is
\* off-screen or heading there), so a successful open leaves the flag true
\* until a later close sequence is started.
C16_HiddenMeansOffScreen ==
  ~visible => modalHeight.target = ScreenHeight

\* C16 as the code has it: the visible flag turns false only when the unmount
\* timer of some started close fires, whether that close was started before
\* or after the last open; if the flag is false and no open, layout, applied
\* drag-move or drag release has written the animated height since the most
\* recent close (or since mount), the animation target is screenHeight. An
\* open or a gesture between a close and the firing of its timer leaves the
\* flag false with the target at an open position.
C16_HiddenAfterCloseMeansOffScreen ==
  /\ []((~visible /\ closedLast) => modalHeight.target = ScreenHeight)
  /\ [][(visible /\ ~visible') => (last'.op = "timer" /\ closesOwed > 0)]_vars

\* the timer of the first of two closes has fired, the panel having been
\* opened and closed again in between: hidden and heading off-screen
C16_Witness ==
  /\ ~visible
  /\ closedLast
  /\ last.op = "timer"
  /\ closesOwed = 1
  /\ modalHeight.target = ScreenHeight

\* two or more strictly ascending non-zero snap points are configured
\* (they stay as configured: validation has nothing to reorder)
AscendingSnapPoints ==
  /\ cfg.hasSnapPoints
  /\ Len(snapPoints) >= 2
  /\ snapPoints[1] > 0
  /\ \A i \in 1..(Len(snapPoints) - 1) : snapPoints[i] < snapPoints[i + 1]

\* C17: with two or more strictly ascending non-zero snap points, every drag
\* release reachable by any sequence of open (with or without an explicit
\* height), close, drag-move and release resolves to a defined target: the
\* resulting last committed translation equals screenHeight - s for some
\* configured snap point s and is never undefined or NaN, also when the
\* release happens at a visible height below the first or above the last
\* snap point.
C17_ReleaseResolvesToSnapPoint ==
  (last.op = "panEnd" /\ AscendingSnapPoints) =>
    \E i \in 1..Len(snapPoints) : nowHeight = ScreenHeight - snapPoints[i]

\* the last handler was an open that opened, a close, a layout completion
\* that re-measured (auto-height on) or a drag release
CommittingEvent ==
  \/ last.op = "visible" /\ last.warn = <<>>
  \/ last.op = "unVisible"
  \/ last.op = "backgroundPress" /\ cfg.backgroundClick
  \/ last.op = "layout" /\ cfg.autoHeight
  \/ last.op = "panEnd"

\* a release in the styled variant mounted without snapPoints
StyledReleaseWithoutSnapPoints ==
  last.op = "panEnd" /\ cfg.variant = "styled" /\ ~cfg.hasSnapPoints

\* C18 as stated: after every open, close, layout-completion or drag-release
\* event, in both variants, with or without snap points, also when the
\* release arrives while an animation is in flight, the last committed
\* translation equals the target the animated height is settling to.
C18_CommittedEqualsTarget ==
  CommittingEvent => nowHeight = modalHeight.target

\* C18 as the code has it: the same, except for a drag release in the styled
\* variant without snap points, which commits the current value of the
\* animated height and starts no animation: after it the last committed
\* translation is the value the animated height had at the release, and it
\* differs from the animation target when the release arrives while an
\* animation is in flight.
C18_CommittedEqualsTargetUnlessStyledFree ==
  /\ (CommittingEvent /\ ~StyledReleaseWithoutSnapPoints)
       => nowHeight = modalHeight.target
  /\ StyledReleaseWithoutSnapPoints
       => (nowHeight = last.pre /\ modalHeight.value = last.pre)

\* a release of the feature-rich variant that arrived while the spring of an
\* earlier release was still in flight: committed translation and target agree
C18_Witness ==
  /\ last.op = "panEnd"
  /\ cfg.variant = "rich"
  /\ cfg.hasSnapPoints
  /\ IsNum(nowHeight)
  /\ last.pre # last.preNow
  /\ modalHeight.anim = "spring"
  /\ modalHeight.value # modalHeight.target
  /\ nowHeight = modalHeight.target

\* C19: when dragable is explicitly false no drag-move event changes the
\* animated height, whatever the snap-point, auto-height and indicator
\* configuration.
C19_DragableFalseBlocksDrag ==
  [][(last'.op = "panActive" /\ cfg.dragable = 0) =>
       modalHeight' = modalHeight]_vars

\* the props use only what the two variants have in common: a non-empty
\* ascending snap-point list, no auto-height, no dragable or visibleIndicator,
\* no onAutoHeight
CommonFeatures(c) ==
  /\ c.hasSnapPoints
  /\ Len(c.snapPoints) >= 1
  /\ \A i \in 1..(Len(c.snapPoints) - 1) : c.snapPoints[i] <= c.snapPoints[i + 1]
  /\ ~c.autoHeight
  /\ c.dragable = Undefined
  /\ c.visibleIndicator = Undefined
  /\ ~c.onAutoHeight

\* the same props given to the other variant
OtherVariant(c) ==
  [c EXCEPT !.variant = IF c.variant = "rich" THEN "styled" ELSE "rich"]

\* C20: for configurations that use only the common features, the
\* feature-rich and the styled variant, started in the same state and fed the
\* same sequence of open, close, drag-move, drag-release and timer events,
\* have the same visible flag, animated-height target and last committed
\* translation after every step. Stated on one step: from every state either
\* variant reaches, the step its open, drag-move or release handler takes is
\* also the step the other variant's handler takes from that state on the
\* same input (the close, backdrop and timer code is the same text in both),
\* and the layout handler only the feature-rich variant has changes nothing.
C20_VariantsStepAlike ==
  [][CommonFeatures(cfg) =>
       /\ last'.op = "visible" => VisibleWith(OtherVariant(cfg), last'.arg)
       /\ last'.op = "panActive" => PanActiveWith(OtherVariant(cfg), last'.arg)
       /\ last'.op = "panEnd" => PanEndWith(OtherVariant(cfg))
       /\ last'.op = "layout" =>
            UNCHANGED <<visible, modalHeight, nowHeight, timers>>]_vars

\* the styled variant with one snap point has accepted a drag-move, inside
\* the range that the feature-rich getMaximum() gives as well
C20_Witness ==
  /\ CommonFeatures(cfg)
  /\ cfg.variant = "styled"
  /\ Len(snapPoints) = 1
  /\ last.op = "panActive"
  /\ nowHeight = ScreenHeight - 15
  /\ modalHeight = Assign(nowHeight + last.arg)

====
